---- MODULE Spec2Model ----
(***************************************************************************)
(* Model of the Clothing Brand API (src/main.py): the FastAPI handlers     *)
(* read_root, hello, test_database, list_products, create_product and      *)
(* seed_products over the "product" collection of the document store.      *)
(*                                                                         *)
(* The granularity of a step is one store operation.  list_products,       *)
(* create_product and test_database issue at most one store operation and  *)
(* are one step each.  seed_products issues count_documents and then one   *)
(* create_document per demo item, so it is a step per store operation,     *)
(* with its position kept in seedPc/seedI.  The handlers declared          *)
(* `async def` contain no await and run on the single event loop that      *)
(* uvicorn.run(app, ...) starts: one of them begins only when no other is  *)
(* in progress (LoopFree).  The handlers declared `def` run in the thread  *)
(* pool and may run at any time.                                           *)
(***************************************************************************)
EXTENDS Integers, Sequences, FiniteSets, TLC

VARIABLES
    db,        \* the module-level store handle imported from database: None or a handle
    store,     \* documents of the "product" collection, in insertion order
    resp,      \* the response of the last completed request
    seedPc,    \* per seed request slot: "idle" or "insert" (inside the for loop)
    seedI,     \* per seed request slot: number of demo items already inserted
    seeded     \* number of seed requests that answered seeded = true

vars == <<db, store, resp, seedPc, seedI, seeded>>

----------------------------------------------------------------------------
(* Bounds *)

MaxDocs == 5       \* create_product is not offered once the collection holds this many
MaxSeedReq == 2    \* number of seed requests that can be in flight

SeedReq == 1..MaxSeedReq

----------------------------------------------------------------------------
(* Values *)

\* Python's None; distinct from every text value used below.
None == "<None>"

Handle == "mongo"

\* The environment variables test_database reads; an environment is the set
\* of those that are set when the request reads them.
EnvNames == {"DATABASE_URL", "DATABASE_NAME"}

\* Python truthiness of an Optional[str]: None and "" are falsy.
Truthy(s) == s # None /\ s # ""

Min(a, b) == IF a < b THEN a ELSE b

Abs(n) == IF n < 0 THEN -n ELSE n

\* s[:n] for n >= 0
Slice(s, n) == SubSeq(s, 1, Min(n, Len(s)))

RECURSIVE Repeat(_, _)
Repeat(x, n) == IF n = 0 THEN <<>> ELSE <<x>> \o Repeat(x, n - 1)

----------------------------------------------------------------------------
(* Identifiers.  The store assigns an ObjectId; str() renders it as text. *)

Digits == <<"0", "1", "2", "3", "4", "5", "6", "7", "8", "9">>

RECURSIVE DecStr(_)
DecStr(n) == IF n < 10 THEN Digits[n + 1] ELSE DecStr(n \div 10) \o Digits[(n % 10) + 1]

ObjectId(n) == [oid |-> n]

\* str(ObjectId)
str(oid) == "oid" \o DecStr(oid.oid)

----------------------------------------------------------------------------
(* Request bodies.  A body is a record holding exactly the fields the      *)
(* client sent, so a missing field is a field outside DOMAIN.              *)

Required == {"title", "price", "category"}

\* class ProductCreate: title, price and category are required; the other
\* fields have defaults.  A body that lacks a required field is rejected by
\* the framework before the handler runs.
ProductCreate(body) == Required \subseteq DOMAIN body

\* product.model_dump(): every declared field, defaults filled in.
model_dump(body) ==
    [title       |-> body.title,
     description |-> IF "description" \in DOMAIN body THEN body.description ELSE None,
     price       |-> body.price,
     category    |-> body.category,
     in_stock    |-> IF "in_stock" \in DOMAIN body THEN body.in_stock ELSE TRUE,
     image       |-> IF "image" \in DOMAIN body THEN body.image ELSE None]

\* schemas.Product(title=..., description=..., price=..., category=...,
\* in_stock=...): title and category non-empty, price >= 0.
ProductSchema(product) ==
    /\ product.title # ""
    /\ product.category # ""
    /\ product.price >= 0

\* create_document is reached whatever the ProductSchema construction did.
create_product_writes_always(product) == TRUE

\* create_product reaches create_document (line 103) only when the
\* ProductSchema construction on lines 95-101 did not raise.
create_product_writes(product) == ProductSchema(product)

ValidBodies ==
    { [title |-> "T", price |-> 10, category |-> "c"],
      [title |-> "T", price |-> 0, category |-> "tops", in_stock |-> FALSE,
       description |-> "d", image |-> "u"] }

InvalidBodies ==
    { [price |-> 10, category |-> "c"],
      [title |-> "", price |-> 10, category |-> "c"],
      [title |-> "T", price |-> 10],
      [title |-> "T", price |-> 10, category |-> ""],
      [title |-> "T", category |-> "c"],
      [title |-> "T", price |-> -1, category |-> "c"] }

Bodies == ValidBodies \cup InvalidBodies

\* The claim's notion of a request that must be refused.
Refused(body) ==
    \/ "title" \notin DOMAIN body
    \/ "category" \notin DOMAIN body
    \/ "price" \notin DOMAIN body
    \/ body.title = ""
    \/ body.category = ""
    \/ body.price < 0

Categories == {None, "", "tops", "c"}

Limits == {-1, 0, 2, 50}

----------------------------------------------------------------------------
(* The store (database module and the driver behind it) *)

RECURSIVE MaxId(_)
MaxId(s) == IF s = <<>> THEN 0
            ELSE LET m == MaxId(Tail(s)) IN IF Head(s)._id.oid > m THEN Head(s)._id.oid ELSE m

\* The identifier the store assigns to the next inserted document.
FreshId(s) == ObjectId(MaxId(s) + 1)

WithId(doc, oid) == [f \in DOMAIN doc \cup {"_id"} |-> IF f = "_id" THEN oid ELSE doc[f]]

\* create_document("product", data): inserts one document; the collection
\* after the insert.
create_document(s, data) == Append(s, WithId(data, FreshId(s)))

\* The value create_document returns: the inserted identifier as text.
inserted_id(s) == str(FreshId(s))

Matches(d, filt) == \A k \in DOMAIN filt : d[k] = filt[k]

\* cursor.limit(n) of the driver: 0 means no limit, a negative n means |n|.
Limited(s, limit) == IF limit = 0 THEN s ELSE Slice(s, Abs(limit))

\* get_documents("product", filt, limit)
get_documents(s, filt, limit) ==
    Limited(SelectSeq(s, LAMBDA d : Matches(d, filt)), limit)

\* db["product"].count_documents({})
count_documents(s) == Len(s)

\* db.list_collection_names(): the product collection exists once it holds
\* a document; `others` are collections this service does not write.
list_collection_names(s, others) ==
    (IF s = <<>> THEN <<>> ELSE <<"product">>) \o others

----------------------------------------------------------------------------
(* Pure parts of the handlers *)

\* serialize_doc rendering the identifier without str()'s representation.
serialize_doc_bare(doc) ==
    IF "_id" \in DOMAIN doc
    THEN [f \in (DOMAIN doc \ {"_id"}) \cup {"id"} |->
            IF f = "id" THEN DecStr(doc._id.oid) ELSE doc[f]]
    ELSE doc

\* serialize_doc
serialize_doc(doc) ==
    IF "_id" \in DOMAIN doc
    THEN [f \in (DOMAIN doc \ {"_id"}) \cup {"id"} |->
            IF f = "id" THEN str(doc._id) ELSE doc[f]]
    ELSE doc

RECURSIVE MapSerialize(_)
MapSerialize(docs) ==
    IF docs = <<>> THEN <<>>
    ELSE <<serialize_doc(Head(docs))>> \o MapSerialize(Tail(docs))

\* The category parameter never reaches the filter.
Filt_ignored(category) == <<>>

\* filt = {"category": category} if category else {}
Filt(category) == IF Truthy(category) THEN [category |-> category] ELSE <<>>

\* The body list_products returns when the store is configured.
list_products_body(s, category, limit) ==
    MapSerialize(get_documents(s, Filt(category), limit))

\* A response: the handler that answered, the HTTP status, the JSON body
\* and the number of store operations the request issued.  The body is held
\* as a record: a JSON array under `items`, an error under `detail`.
Response(op, status, body, ops) == [op |-> op, status |-> status, body |-> body, ops |-> ops]

----------------------------------------------------------------------------
(* GET /test *)

\* What db.list_collection_names() can do: return the names, or raise with
\* a message (a sequence of characters).
ListOutcomes ==
    { [raises |-> FALSE, others |-> <<>>, msg |-> <<>>],
      [raises |-> FALSE, others |-> Repeat("x", 11), msg |-> <<>>],
      [raises |-> TRUE, others |-> <<>>, msg |-> <<"e">>],
      [raises |-> TRUE, others |-> <<>>, msg |-> Repeat("e", 51)] }

getenv(e, name) == name \in e

\* test_database without its try/except blocks: a failing collection
\* listing leaves the handler as an unhandled exception.
test_database_unguarded(d, e, s, outcome) ==
    IF d # None /\ outcome.raises
    THEN Response("test", 500, [detail |-> "Internal Server Error"], 1)
    ELSE Response("test", 200,
                  [backend |-> "Running", database |-> <<"Connected & Working", <<>>>>,
                   database_url |-> "Set", database_name |-> "Set",
                   connection_status |-> "Connected", collections |-> <<>>],
                  IF d # None THEN 1 ELSE 0)

\* test_database: the report it returns.  The `database` field is a pair of
\* the status text and the (truncated) error message.
test_database_result(d, e, s, outcome) ==
    LET r0 == [backend           |-> "Running",
               database          |-> <<"Not Available", <<>>>>,
               database_url      |-> None,
               database_name     |-> None,
               connection_status |-> "Not Connected",
               collections       |-> <<>>]
        r1 == IF d # None
              THEN LET c == [r0 EXCEPT !.database = <<"Available", <<>>>>,
                                       !.database_url = "Configured",
                                       !.database_name = "name",
                                       !.connection_status = "Connected"]
                   IN IF outcome.raises
                      THEN [c EXCEPT !.database =
                                <<"Connected but Error", Slice(outcome.msg, 50)>>]
                      ELSE [c EXCEPT !.collections =
                                        Slice(list_collection_names(s, outcome.others), 10),
                                     !.database = <<"Connected & Working", <<>>>>]
              ELSE [r0 EXCEPT !.database = <<"Available but not initialized", <<>>>>]
        r2 == [r1 EXCEPT !.database_url =
                            IF getenv(e, "DATABASE_URL") THEN "Set" ELSE "Not Set",
                         !.database_name =
                            IF getenv(e, "DATABASE_NAME") THEN "Set" ELSE "Not Set"]
    IN Response("test", 200, r2, IF d # None THEN 1 ELSE 0)

----------------------------------------------------------------------------
(* GET /api/products *)

\* list_products without the `if db is None` guard: get_documents raises.
list_products_unguarded(d, s, category, limit) ==
    IF d = None
    THEN Response("list", 500, [detail |-> "Internal Server Error"], 0)
    ELSE Response("list", 200, [items |-> list_products_body(s, category, limit)], 1)

list_products_result(d, s, category, limit) ==
    IF d = None
    THEN Response("list", 200, [items |-> <<>>], 0)
    ELSE Response("list", 200, [items |-> list_products_body(s, category, limit)], 1)

----------------------------------------------------------------------------
(* POST /api/products *)

\* create_document raises when no store is configured.
store_available(d) == d # None

\* Outcome of create_product: the response and the collection afterwards.
create_product_result(d, s, body) ==
    IF ~ProductCreate(body)
    THEN [resp  |-> Response("create", 422, [detail |-> "ValidationError"], 0), store |-> s]
    ELSE LET product == model_dump(body) IN
         IF ~create_product_writes(product)
         THEN \* pydantic's error raised inside the handler is unhandled
              [resp  |-> Response("create", 500, [detail |-> "ValidationError"], 0), store |-> s]
         ELSE IF ~store_available(d)
         THEN [resp  |-> Response("create", 500, [detail |-> "StoreUnavailable"], 0), store |-> s]
         ELSE [resp  |-> Response("create", 201, [id |-> inserted_id(s)], 1),
               store |-> create_document(s, product)]

----------------------------------------------------------------------------
(* POST /api/seed *)

\* A demo list with a fifth item.
demo_items_five ==
    << [title |-> "Classic Tee - Black", description |-> "d", price |-> 29,
        category |-> "tops", in_stock |-> TRUE, image |-> "u"],
       [title |-> "Oversized Hoodie - Cream", description |-> "d", price |-> 69,
        category |-> "hoodies", in_stock |-> TRUE, image |-> "u"],
       [title |-> "Relaxed Fit Jeans", description |-> "d", price |-> 59,
        category |-> "bottoms", in_stock |-> TRUE, image |-> "u"],
       [title |-> "Utility Jacket - Olive", description |-> "d", price |-> 119,
        category |-> "outerwear", in_stock |-> TRUE, image |-> "u"],
       [title |-> "Canvas Cap", description |-> "d", price |-> 19,
        category |-> "accessories", in_stock |-> TRUE, image |-> "u"] >>

demo_items ==
    << [title       |-> "Classic Tee - Black",
        description |-> "Premium cotton. Tailored fit.",
        price       |-> 29,
        category    |-> "tops",
        in_stock    |-> TRUE,
        image       |-> "https://images.unsplash.com/photo-1520975922131-c0f3c0b1c1a9?q=80&w=800&auto=format&fit=crop"],
       [title       |-> "Oversized Hoodie - Cream",
        description |-> "Heavyweight fleece with embroidered logo.",
        price       |-> 69,
        category    |-> "hoodies",
        in_stock    |-> TRUE,
        image       |-> "https://images.unsplash.com/photo-1520975922131-1b2e?crop=faces&fit=crop&w=800&q=80"],
       [title       |-> "Relaxed Fit Jeans",
        description |-> "Vintage wash, straight leg.",
        price       |-> 59,
        category    |-> "bottoms",
        in_stock    |-> TRUE,
        image       |-> "https://images.unsplash.com/photo-1519741497674-611481863552?q=80&w=800&auto=format&fit=crop"],
       [title       |-> "Utility Jacket - Olive",
        description |-> "Water-repellent with multi pockets.",
        price       |-> 119,
        category    |-> "outerwear",
        in_stock    |-> TRUE,
        image       |-> "https://images.unsplash.com/photo-1541099649105-f69ad21f3246?q=80&w=800&auto=format&fit=crop"] >>

\* seed degrading softly, as list_products does, when db is None.
seed_unconfigured_soft ==
    Response("seed", 200, [seeded |-> FALSE, message |-> "Database not configured"], 0)

\* raise HTTPException(status_code=500, detail="Database not configured")
seed_unconfigured == Response("seed", 500, [detail |-> "Database not configured"], 0)

\* The guard comparing against the size of the demo list instead of 0.
seed_skips_late(count) == count > 4

\* if count > 0: return {"seeded": False, ...}
seed_skips(count) == count > 0

\* Seeding that replaces the collection by the item instead of adding to it.
seed_insert_replace(s, item) == <<WithId(item, FreshId(s))>>

\* create_document("product", item) inside the for loop
seed_insert(s, item) == create_document(s, item)

\* Store operations a seed request has issued after inserting i items.
seed_ops(i) == 1 + i

----------------------------------------------------------------------------
(* Scheduling *)

\* Handlers dispatched to the thread pool: one may begin at any time.
LoopFree_threaded == TRUE

\* No `async def` handler is in progress on the event loop.
LoopFree == \A r \in SeedReq : seedPc[r] = "idle"

----------------------------------------------------------------------------
(* State machine *)

NoResponse == Response("none", 0, [detail |-> "none"], 0)

Init ==
    /\ db \in {None, Handle}
    /\ store = <<>>
    /\ resp = NoResponse
    /\ seedPc = [r \in SeedReq |-> "idle"]
    /\ seedI = [r \in SeedReq |-> 0]
    /\ seeded = 0

\* GET /  (def: thread pool)
read_root ==
    /\ resp' = Response("root", 200, [message |-> "Clothing Brand Backend is running"], 0)
    /\ UNCHANGED <<db, store, seedPc, seedI, seeded>>

\* GET /api/hello  (def: thread pool)
hello ==
    /\ resp' = Response("hello", 200, [message |-> "Hello from the backend API!"], 0)
    /\ UNCHANGED <<db, store, seedPc, seedI, seeded>>

\* GET /test  (def: thread pool)
test_database ==
    \E outcome \in ListOutcomes, e \in SUBSET EnvNames :
        /\ resp' = test_database_result(db, e, store, outcome)
        /\ UNCHANGED <<db, store, seedPc, seedI, seeded>>

\* GET /api/products?category=&limit=  (async def: event loop)
list_products(category, limit) ==
    /\ LoopFree
    /\ resp' = list_products_result(db, store, category, limit)
    /\ UNCHANGED <<db, store, seedPc, seedI, seeded>>

\* POST /api/products  (async def: event loop)
create_product(body) ==
    /\ LoopFree
    /\ LET out == create_product_result(db, store, body) IN
        /\ out.store # store => Len(store) < MaxDocs
        /\ resp' = out.resp
        /\ store' = out.store
    /\ UNCHANGED <<db, seedPc, seedI, seeded>>

\* POST /api/seed, up to and including the count check  (async def: event loop)
seed_begin(r) ==
    /\ LoopFree
    /\ seedPc[r] = "idle"
    /\ IF db = None
       THEN /\ resp' = seed_unconfigured
            /\ UNCHANGED <<seedPc, seedI>>
       ELSE IF seed_skips(count_documents(store))
       THEN /\ resp' = Response("seed", 200,
                                [seeded |-> FALSE, message |-> "Products already exist"],
                                seed_ops(0))
            /\ UNCHANGED <<seedPc, seedI>>
       ELSE /\ seedPc' = [seedPc EXCEPT ![r] = "insert"]
            /\ seedI' = [seedI EXCEPT ![r] = 0]
            /\ UNCHANGED resp
    /\ UNCHANGED <<db, store, seeded>>

\* POST /api/seed, one iteration of `for item in demo_items`; the last
\* iteration is followed by the return.
seed_insert_step(r) ==
    /\ seedPc[r] = "insert"
    /\ seedI[r] < Len(demo_items)
    /\ store' = seed_insert(store, demo_items[seedI[r] + 1])
    /\ IF seedI[r] + 1 = Len(demo_items)
       THEN /\ seedPc' = [seedPc EXCEPT ![r] = "idle"]
            /\ seedI' = [seedI EXCEPT ![r] = 0]
            /\ resp' = Response("seed", 200,
                                [seeded |-> TRUE, count |-> Len(demo_items)],
                                seed_ops(Len(demo_items)))
            /\ seeded' = seeded + 1
       ELSE /\ seedI' = [seedI EXCEPT ![r] = seedI[r] + 1]
            /\ UNCHANGED <<seedPc, resp, seeded>>
    /\ UNCHANGED db

Next ==
    \/ read_root
    \/ hello
    \/ test_database
    \/ \E category \in Categories, limit \in Limits : list_products(category, limit)
    \/ \E body \in Bodies : create_product(body)
    \/ \E r \in SeedReq : seed_begin(r)
    \/ \E r \in SeedReq : seed_insert_step(r)

Spec == Init /\ [][Next]_vars

TypeOK ==
    /\ db \in {None, Handle}
    /\ resp.op \in {"none", "root", "hello", "test", "list", "create", "seed"}
    /\ seedPc \in [SeedReq -> {"idle", "insert"}]
    /\ seedI \in [SeedReq -> 0..Len(demo_items)]
    /\ seeded \in Nat

----------------------------------------------------------------------------
(* Properties *)

Ok(r) == r.status \in {200, 201}

SeededTrue(r) == r.op = "seed" /\ Ok(r) /\ r.body.seeded

SeededFalse(r) == r.op = "seed" /\ Ok(r) /\ ~r.body.seeded

Idx(s) == 1..Len(s)

DemoTitles == {demo_items[i].title : i \in Idx(demo_items)}

DemoDocs(s) == {i \in Idx(s) : s[i].title \in DemoTitles}

\* The collection holds exactly the first n demo items, in order.
IsDemoPrefix(s, n) ==
    /\ Len(s) = n
    /\ \A i \in Idx(s) :
          [f \in DOMAIN s[i] \ {"_id"} |-> s[i][f]] = demo_items[i]

\* C1: on a configured store with no products, a seed request goes on to
\* insert, and when it returns it has inserted exactly the 4 demo products
\* and answers seeded=true, count=4; a seed request that directly follows
\* one that answered seeded=true answers seeded=false and leaves the
\* collection as it was.
C1_SeedTwice ==
    [][\A r \in SeedReq :
         /\ (seed_begin(r) /\ db # None /\ store = <<>>)
               => seedPc'[r] = "insert"
         /\ (seed_insert_step(r) /\ seedPc'[r] = "idle")
               => /\ IsDemoPrefix(store', 4)
                  /\ resp'.status = 200
                  /\ resp'.body = [seeded |-> TRUE, count |-> 4]
         /\ (seed_begin(r) /\ SeededTrue(resp))
               => /\ SeededFalse(resp')
                  /\ store' = store
                  /\ seedPc' = seedPc
      ]_vars

\* A second seed request has answered seeded=false right after the first
\* one inserted the 4 products.
C1_Witness ==
    /\ SeededFalse(resp)
    /\ seeded = 1
    /\ IsDemoPrefix(store, 4)

\* C2: a create request whose title or category is missing or empty, or
\* whose price is missing or negative, ends in a validation error and leaves
\* the collection unchanged.
C2_InvalidCreateRejected ==
    [][\A body \in Bodies :
         (Refused(body) /\ create_product(body))
            => /\ ~Ok(resp')
               /\ resp'.body = [detail |-> "ValidationError"]
               /\ store' = store
      ]_vars

C2_Witness ==
    /\ resp.op = "create"
    /\ ~Ok(resp)
    /\ resp.body = [detail |-> "ValidationError"]
    /\ store # <<>>

\* C3: a valid create request without in_stock on a configured store
\* succeeds, the persisted product has in_stock = true, and in the unfiltered
\* listing that follows exactly one product carries the returned identifier
\* as its id, and it is the product just created.
C3_CreateThenList ==
    [][\A body \in Bodies :
         (~Refused(body) /\ db # None /\ "in_stock" \notin DOMAIN body
            /\ create_product(body))
            => /\ resp'.status = 201
               /\ Len(store') = Len(store) + 1
               /\ store'[Len(store')].in_stock = TRUE
               /\ LET listing == list_products_result(db', store', None, 50).body.items
                      hits == {i \in Idx(listing) : listing[i].id = resp'.body.id}
                  IN /\ Cardinality(hits) = 1
                     /\ \A i \in hits :
                          /\ listing[i].in_stock = TRUE
                          /\ listing[i].title = body.title
                          /\ listing[i].price = body.price
                          /\ listing[i].category = body.category
                          /\ "_id" \notin DOMAIN listing[i]
      ]_vars

C3_Witness ==
    /\ resp.op = "create"
    /\ resp.status = 201
    /\ Len(store) >= 2
    /\ \E i \in Idx(store) :
          /\ str(store[i]._id) = resp.body.id
          /\ store[i].in_stock = TRUE
          /\ store[i].title = "T"

\* C4 as stated: for every category value c and every integer limit, the
\* listing holds only products of category c and at most limit items.
C4_Original ==
    [][\A c \in Categories \ {None}, l \in Limits :
         (resp'.op = "list" /\ list_products(c, l))
            => /\ \A i \in Idx(resp'.body.items) : resp'.body.items[i].category = c
               /\ Len(resp'.body.items) <= l
      ]_vars

\* C4: for every non-empty category c and every limit >= 1, the listing
\* holds only products of category c and at most limit items.
C4_FilterAndLimit ==
    [][\A c \in Categories, l \in Limits :
         (Truthy(c) /\ l >= 1 /\ resp'.op = "list" /\ list_products(c, l))
            => /\ \A i \in Idx(resp'.body.items) : resp'.body.items[i].category = c
               /\ Len(resp'.body.items) <= l
      ]_vars

\* A listing of two "tops" products from a collection that holds more
\* products, some of another category.
C4_Witness ==
    /\ resp.op = "list"
    /\ Len(resp.body.items) = 2
    /\ \A i \in Idx(resp.body.items) : resp.body.items[i].category = "tops"
    /\ Cardinality({i \in Idx(store) : store[i].category = "tops"}) >= 3
    /\ \E i \in Idx(store) : store[i].category # "tops"

\* C5: list answers an empty sequence, not an error, when no store is
\* configured and when the collection is empty, for every category and limit.
C5_ListEmpty ==
    [][\A c \in Categories, l \in Limits :
         ((db = None \/ store = <<>>) /\ resp'.op = "list" /\ list_products(c, l))
            => /\ resp'.status = 200
               /\ resp'.body = [items |-> <<>>]
      ]_vars

C5_Witness ==
    /\ db = None
    /\ resp.op = "list"
    /\ resp.status = 200
    /\ resp.body = [items |-> <<>>]

\* C6: with no store configured, a create request with valid input and a
\* seed request end in a 500 response and write nothing.
C6_NoStoreServerError ==
    [][db = None =>
         /\ \A body \in Bodies :
               (~Refused(body) /\ create_product(body))
                  => /\ resp'.status = 500
                     /\ store' = store
         /\ \A r \in SeedReq :
               seed_begin(r)
                  => /\ resp'.op = "seed"
                     /\ resp'.status = 500
                     /\ store' = store
                     /\ seedPc' = seedPc
      ]_vars

C6_Witness ==
    /\ db = None
    /\ resp.op = "seed"
    /\ resp.status = 500
    /\ store = <<>>

HealthFields ==
    {"backend", "database", "database_url", "database_name",
     "connection_status", "collections"}

\* C7: the health check always answers 200 with a status object, whether
\* the store is absent, its collection listing fails, or it is connected.
C7_HealthNeverFails ==
    resp.op = "test" =>
        /\ resp.status = 200
        /\ DOMAIN resp.body = HealthFields

\* The health check has answered while the collection listing failed.
C7_Witness ==
    /\ resp.op = "test"
    /\ resp.status = 200
    /\ resp.body.database[1] = "Connected but Error"
    /\ Len(resp.body.database[2]) = 50

\* C8 as stated: every request performs at most one store operation.
C8_Original ==
    /\ resp.ops <= 1
    /\ \A r \in SeedReq : seedPc[r] = "insert" => seed_ops(seedI[r]) <= 1

\* C8: list, create and the health check perform at most one store
\* operation per request; seed performs one count and, when it finds no
\* product, one insert per demo product: five store operations.
C8_StoreOps ==
    /\ resp.op \in {"list", "create", "test", "root", "hello"} => resp.ops <= 1
    /\ resp.op = "seed" => resp.ops \in {0, 1, 5}
    /\ SeededTrue(resp) => resp.ops = 5
    /\ SeededFalse(resp) => resp.ops = 1
    /\ \A r \in SeedReq : seedPc[r] = "insert" => seed_ops(seedI[r]) < 5

C8_Witness ==
    /\ SeededTrue(resp)
    /\ resp.ops = 5
    /\ Len(store) = 4

\* C9: every step keeps every stored product, with its identifier and its
\* field values, and the number of stored products never decreases.
C9_NeverUpdatedOrDeleted ==
    [][/\ Len(store') >= Len(store)
       /\ \A i \in Idx(store) : \E j \in Idx(store') : store'[j] = store[i]
      ]_vars

\* Demo products and a created product are stored together.
C9_Witness ==
    /\ seeded = 1
    /\ Cardinality(DemoDocs(store)) = 4
    /\ Len(store) = 5
    /\ resp.op = "create"

====
